---- MODULE Spec2Model ----
(***************************************************************************)
(* Model of the route sequencer and of the timeline builders of the smart  *)
(* scheduler.                                                              *)
(*                                                                         *)
(*   sequencer        src/src/App.jsx 625-712 (Map component: route        *)
(*                    effect, calculateOptimalRoute, drawFinalRoute)       *)
(*   forward builder  src/unnamed/part_000 6-120 (createTimeAwareSchedule, *)
(*                    handleRouteCalculated)                               *)
(*   backward builder src/src/App.jsx 6-115 (createTimeAwareSchedule,      *)
(*                    handleRouteCalculated)                               *)
(*   resolver         src/src/utils/places.js 95-155 (findNearbyPlace,     *)
(*                    resolveLocations)                                    *)
(*   optimizer        src/unnamed/part_001 7-46                            *)
(*                    (optimizeRouteWithFeatherless)                       *)
(*   session          src/unnamed/part_000 45-291 (App: handleSend,        *)
(*                    handleRouteCalculated, handleClearSchedule) with     *)
(*                    src/src/App.jsx 551-743 (Map)                        *)
(*   order scheduler  src/src/App.jsx 307-345 (createSchedule)             *)
(*                                                                         *)
(* Times are JavaScript time values in milliseconds.  A JavaScript number  *)
(* is a record [nan, v]: NaN is a value of its own, every comparison with  *)
(* it is false and every sum with it is NaN, as in the language.           *)
(***************************************************************************)
EXTENDS Integers, Sequences, FiniteSets

VARIABLES
    unit,          \* which unit the run exercises: "sequencer" or "timeline"
    pc,            \* position of the run
    tasks,         \* Map prop `tasks`
    userLocation,  \* Map prop `userLocation`
    finalOrder,    \* calculateOptimalRoute's finalOrder
    routeRequests, \* requests handed to directionsService.route
    orderedTasks,  \* first argument of handleRouteCalculated
    route,         \* second argument of handleRouteCalculated: [legs |-> ...]
    now,           \* what new Date() reads in handleRouteCalculated
    policy,        \* which build ran: "none", "forward" or "backward"
    schedule,      \* App state `schedule`
    statusIcons,   \* the status handleRouteCalculated prints for each entry
    directions,    \* the DirectionsResult the route callback received
    previous,      \* the call of handleRouteCalculated before the current one
    geocoderLoaded,\* window.google.maps.Geocoder is defined
    lookups,       \* what the Places and Geocoding lookups answer for each task
    resolvedTasks, \* what resolveLocations returned
    apiReply,      \* what the featherless.ai request comes back with
    optimized,     \* how optimizeRouteWithFeatherless settled
    lookupLog,     \* the lookups resolveLocations has consulted, in order
    app            \* the App and Map state of a session besides tasks and schedule

timelineVars == <<orderedTasks, route, now, policy, schedule, statusIcons, previous>>

sequencerVars == <<finalOrder, routeRequests, directions>>

resolverVars == <<geocoderLoaded, lookups, resolvedTasks, lookupLog>>

optimizerVars == <<apiReply, optimized>>

vars == <<unit, pc, tasks, userLocation, finalOrder, routeRequests,
          orderedTasks, route, now, policy, schedule, statusIcons,
          directions, previous, geocoderLoaded, lookups, resolvedTasks,
          apiReply, optimized, lookupLog, app>>

-----------------------------------------------------------------------------
(* Bounds of the model *)

MaxTasks == 3

MaxStops == 2

\* how often a session gets past the first checks of handleSend
MaxSends == 2

-----------------------------------------------------------------------------
(* JavaScript numbers *)

Num(n) == [nan |-> FALSE, v |-> n]

NaN == [nan |-> TRUE, v |-> 0]

JsAdd(a, b) == IF a.nan \/ b.nan THEN NaN ELSE Num(a.v + b.v)

JsSub(a, b) == IF a.nan \/ b.nan THEN NaN ELSE Num(a.v - b.v)

JsMul(a, b) == IF a.nan \/ b.nan THEN NaN ELSE Num(a.v * b.v)

JsLess(a, b) == ~a.nan /\ ~b.nan /\ a.v < b.v

JsGreater(a, b) == ~a.nan /\ ~b.nan /\ a.v > b.v

Abs(n) == IF n < 0 THEN -n ELSE n

-----------------------------------------------------------------------------
(* Values of a task's mustArriveBy property and new Date(mustArriveBy) *)

NullValue == [kind |-> "null", ms |-> 0]

Undefined == [kind |-> "undefined", ms |-> 0]

Iso(ms) == [kind |-> "iso", ms |-> ms]

\* new Date(x).getTime(): new Date(null) is the epoch, new Date(undefined)
\* is an Invalid Date whose time value is NaN.
DateOf(x) ==
    CASE x.kind = "null" -> Num(0)
      [] x.kind = "undefined" -> NaN
      [] OTHER -> Num(x.ms)

\* ToBoolean(x) for a mustArriveBy value
Truthy(x) == x.kind = "iso"

-----------------------------------------------------------------------------
(* Array.prototype.sort((a, b) => key(a) - key(b)) on the indices 1..n of   *)
(* an array whose i-th element has the key keys[i].                        *)

\* The comparator's result for two keys, and ECMAScript's reading of it:
\* a NaN result counts as +0.
CompareFn(ka, kb) == JsSub(ka, kb)

Before(ka, kb) == JsLess(CompareFn(ka, kb), Num(0))

Equivalent(ka, kb) == ~Before(ka, kb) /\ ~Before(kb, ka)

\* ECMAScript (Array.prototype.sort): a consistent comparator orders the
\* elements totally up to equivalence.
ConsistentComparator(keys) ==
    \A i, j, k \in DOMAIN keys :
        /\ (Before(keys[i], keys[j]) /\ Before(keys[j], keys[k]))
              => Before(keys[i], keys[k])
        /\ (Equivalent(keys[i], keys[j]) /\ Equivalent(keys[j], keys[k]))
              => Equivalent(keys[i], keys[k])

\* position at which x goes into the sorted index list s: before the first
\* element that must come after it, so that equal keys keep their order
InsertAt(keys, s, x) ==
    IF \E p \in 1..Len(s) : Before(keys[x], keys[s[p]])
    THEN CHOOSE p \in 1..Len(s) :
            /\ Before(keys[x], keys[s[p]])
            /\ \A q \in 1..(p - 1) : ~Before(keys[x], keys[s[q]])
    ELSE Len(s) + 1

RECURSIVE StableSorted(_, _)
StableSorted(keys, n) ==
    IF n = 0 THEN <<>>
    ELSE LET s == StableSorted(keys, n - 1)
             p == InsertAt(keys, s, n)
         IN  SubSeq(s, 1, p - 1) \o <<n>> \o SubSeq(s, p, Len(s))

Permutations(n) ==
    {f \in [1..n -> 1..n] : \A i, j \in 1..n : f[i] = f[j] => i = j}

\* With a comparator that is not consistent the sort order is
\* implementation-defined.  The engines sort by stable insertion and merging,
\* which move an element ahead of another one only on the answer "less":
\* whatever they compare, neighbours of the result are never out of order,
\* and neighbours the comparator calls equal are in input order.
LocallySorted(keys) ==
    {f \in Permutations(Len(keys)) :
        \A p \in 1..(Len(keys) - 1) :
            /\ ~Before(keys[f[p + 1]], keys[f[p]])
            /\ Equivalent(keys[f[p]], keys[f[p + 1]]) => f[p] < f[p + 1]}

\* the index orders sort may leave behind: the stable sorted order (ES2019)
\* for a consistent comparator
SortOutcomes(keys) ==
    IF ConsistentComparator(keys)
    THEN {StableSorted(keys, Len(keys))}
    ELSE LocallySorted(keys)

Pick(s, idx) == [i \in 1..Len(idx) |-> s[idx[i]]]

-----------------------------------------------------------------------------
(* The sequencer: calculateOptimalRoute and drawFinalRoute *)

\* google.maps.geometry.spherical.computeDistanceBetween for two points of
\* one meridian: the length of the arc between them, one unit per degree of
\* latitude.  Every point of the model lies on the meridian lng = 0.
distanceBetween(lat1, lng1, lat2, lng2) == Num(Abs(lat1 - lat2))

FlexibleDropsDeadlines(ts) ==
    SelectSeq(ts, LAMBDA t : ~t.fixedTime /\ ~Truthy(t.mustArriveBy))

\* tasks.filter(t => t.fixedTime), before the sort
FixedFilter(ts) == SelectSeq(ts, LAMBDA t : t.fixedTime)

\* tasks.filter(t => !t.fixedTime)
FlexibleFilter(ts) == SelectSeq(ts, LAMBDA t : ~t.fixedTime)

DeadlineKeys(fs) == [i \in 1..Len(fs) |-> DateOf(fs[i].mustArriveBy)]

\* the fixedTasks arrays the filter and sort of lines 647-648 may produce
FixedTasksOutcomes(ts) ==
    LET fs == FixedFilter(ts)
    IN  {Pick(fs, idx) : idx \in SortOutcomes(DeadlineKeys(fs))}

ReferenceAlwaysUser(fixedTasks, loc) == [lat |-> loc.lat, lng |-> loc.lng]

\* referencePoint of lines 658-660
ReferencePoint(fixedTasks, loc) ==
    IF Len(fixedTasks) > 0
    THEN [lat |-> fixedTasks[Len(fixedTasks)].lat,
          lng |-> fixedTasks[Len(fixedTasks)].lng]
    ELSE [lat |-> loc.lat, lng |-> loc.lng]

DistanceKeys(fl, ref) ==
    [i \in 1..Len(fl) |->
        distanceBetween(ref.lat, ref.lng, fl[i].lat, fl[i].lng)]

\* orderedFlexible of lines 654-667
OrderedFlexibleOutcomes(ts, fixedTasks, loc) ==
    LET fl == FlexibleFilter(ts)
    IN  IF Len(fl) > 0
        THEN {Pick(fl, idx) :
                idx \in SortOutcomes(DistanceKeys(fl, ReferencePoint(fixedTasks, loc)))}
        ELSE {fl}

FlexibleFirst(fixedTasks, orderedFlexible) == orderedFlexible \o fixedTasks

\* finalOrder of line 669
Concat(fixedTasks, orderedFlexible) == fixedTasks \o orderedFlexible

\* the finalOrder values calculateOptimalRoute may hand to drawFinalRoute
calculateOptimalRoute(ts, loc) ==
    UNION {{Concat(fx, fl) : fl \in OrderedFlexibleOutcomes(ts, fx, loc)} :
              fx \in FixedTasksOutcomes(ts)}

SortsTasksProp(ts, order) == order

\* the tasks prop after calculateOptimalRoute: filter (lines 647, 649) and
\* the spread of line 662 return new arrays, and it is those that sort
\* reorders
TasksAfterRoute(ts, order) == ts

PointOf(t) == [lat |-> t.lat, lng |-> t.lng]

DrawOptimized(ordered, loc) ==
    IF Len(ordered) = 0 THEN <<>>
    ELSE <<[origin |-> loc,
            waypoints |-> [i \in 1..(Len(ordered) - 1) |-> PointOf(ordered[i])],
            destination |-> PointOf(ordered[Len(ordered)]),
            optimizeWaypoints |-> TRUE,
            orderedTasks |-> ordered]>>

DrawWithoutEmptyCheck(ordered, loc) ==
    <<[origin |-> loc,
       waypoints |-> [i \in 1..(Len(ordered) - 1) |-> PointOf(ordered[i])],
       destination |-> IF Len(ordered) = 0 THEN loc ELSE PointOf(ordered[Len(ordered)]),
       optimizeWaypoints |-> FALSE,
       orderedTasks |-> ordered]>>

\* the requests drawFinalRoute(ordered) passes to directionsService.route:
\* none for an empty order
drawFinalRoute(ordered, loc) ==
    IF Len(ordered) = 0 THEN <<>>
    ELSE <<[origin |-> loc,
            waypoints |-> [i \in 1..(Len(ordered) - 1) |-> PointOf(ordered[i])],
            destination |-> PointOf(ordered[Len(ordered)]),
            optimizeWaypoints |-> FALSE,
            orderedTasks |-> ordered]>>

\* driving time of a leg, in seconds: ten minutes for each unit of distance
DrivingSeconds(a, b) == 600 * Abs(a.lat - b.lat)

\* the orders in which the Directions service may visit the waypoints of a
\* request: as given, or any order when optimizeWaypoints is set
WaypointOrders(req) ==
    IF req.optimizeWaypoints
    THEN Permutations(Len(req.waypoints))
    ELSE {[i \in 1..Len(req.waypoints) |-> i]}

\* result.routes[0] for a request answered "OK": one leg for each stopover
\* waypoint and one for the destination, each from the stop before it
DirectionsResults(req) ==
    {LET stops == <<req.origin>> \o Pick(req.waypoints, order) \o <<req.destination>>
     IN  [legs |-> [i \in 1..(Len(stops) - 1) |->
                      [start_location |-> stops[i],
                       end_location |-> stops[i + 1],
                       duration |-> DrivingSeconds(stops[i], stops[i + 1])]]] :
        order \in WaypointOrders(req)}

NoDirections == [legs |-> <<>>]

-----------------------------------------------------------------------------
(* The timeline builders *)

MsPerMinute == 60000

Minutes(m) == m * MsPerMinute

SecondsPerMinute == 60

TightMinutes == 5

BUFFER_MINUTES == 5

FloorMinutes(seconds) == seconds \div SecondsPerMinute

\* Math.ceil(leg.duration.value / 60)
TravelMinutes(seconds) == -((-seconds) \div SecondsPerMinute)

NoDate == [isNull |-> TRUE, t |-> NaN]

DateAt(t) == [isNull |-> FALSE, t |-> t]

EndIgnoresDuration(startTime, durationMinutes) == startTime

EndBeforeStart(startTime, durationMinutes) ==
    JsSub(startTime, JsMul(durationMinutes, Num(MsPerMinute)))

\* new Date(startTime.getTime() + task.durationMinutes * 60 * 1000)
EndTime(startTime, durationMinutes) ==
    JsAdd(startTime, JsMul(durationMinutes, Num(MsPerMinute)))

LateAtDeadline(startTime, deadline) ==
    JsGreater(startTime, deadline) \/ (~startTime.nan /\ startTime = deadline)

\* startTime > scheduleItem.deadline
IsLate(startTime, deadline) == JsGreater(startTime, deadline)

\* one round of the forEach of the forward builder (part_000 11-40)
ForwardItem(task, seconds, currentDateTime) ==
    LET travelMinutes == TravelMinutes(seconds)
        startTime == JsAdd(currentDateTime, Num(travelMinutes * MsPerMinute))
        endTime == EndTime(startTime, task.durationMinutes)
        deadline == IF task.fixedTime THEN DateAt(DateOf(task.mustArriveBy)) ELSE NoDate
    IN  [taskId |-> task.id,
         startTime |-> startTime,
         endTime |-> endTime,
         travelMinutes |-> travelMinutes,
         isFixed |-> task.fixedTime,
         deadline |-> deadline,
         isLate |-> task.fixedTime /\ IsLate(startTime, deadline.t)]

RECURSIVE ForwardSchedule(_, _, _, _)
ForwardSchedule(ts, legs, currentTime, n) ==
    IF n = 0 THEN <<>>
    ELSE LET before == ForwardSchedule(ts, legs, currentTime, n - 1)
             clock == IF n = 1 THEN currentTime ELSE before[n - 1].endTime
         IN  Append(before, ForwardItem(ts[n], legs[n], clock))

SkipsMissingLegs(ts, r, currentTime) ==
    [threw |-> FALSE,
     schedule |-> ForwardSchedule(ts, r.legs, Num(currentTime),
                                  IF Len(r.legs) < Len(ts) THEN Len(r.legs)
                                  ELSE Len(ts))]

ClockKeptAcrossCalls(ts, r, currentTime) ==
    IF Len(r.legs) < Len(ts)
    THEN [threw |-> TRUE, schedule |-> <<>>]
    ELSE [threw |-> FALSE,
          schedule |-> ForwardSchedule(ts, r.legs,
                          IF Len(schedule) > 0 THEN schedule[Len(schedule)].endTime
                          ELSE Num(currentTime),
                          Len(ts))]

\* createTimeAwareSchedule(tasks, route, userLocation, currentTime) of
\* part_000: route.legs[i] is undefined past the last leg, and reading its
\* duration throws
createTimeAwareSchedule(ts, r, currentTime) ==
    IF Len(r.legs) < Len(ts)
    THEN [threw |-> TRUE, schedule |-> <<>>]
    ELSE [threw |-> FALSE,
          schedule |-> ForwardSchedule(ts, r.legs, Num(currentTime), Len(ts))]

TightUpToThreshold(s) ==
    IF ~s.isFixed THEN ""
    ELSE IF s.isLate THEN "LATE"
    ELSE IF ~JsGreater(JsSub(s.deadline.t, s.startTime), Num(TightMinutes * MsPerMinute))
         THEN "TIGHT"
    ELSE "ON TIME"

\* statusIcon of the forward handleRouteCalculated (part_000 92-102)
StatusIcon(s) ==
    IF ~s.isFixed THEN ""
    ELSE IF s.isLate THEN "LATE"
    ELSE IF JsLess(JsSub(s.deadline.t, s.startTime), Num(TightMinutes * MsPerMinute))
         THEN "TIGHT"
    ELSE "ON TIME"

ArriveAtDeadline(mustArrive) == mustArrive

\* new Date(mustArrive.getTime() - BUFFER_MINUTES * 60 * 1000)
ArriveTarget(mustArrive) == JsSub(mustArrive, Num(BUFFER_MINUTES * MsPerMinute))

\* one round of the forEach of the backward builder (App.jsx 10-36)
BackwardItem(task, seconds) ==
    LET travelMinutes == TravelMinutes(seconds)
        timed == task.fixedTime /\ Truthy(task.mustArriveBy)
        mustArrive == DateOf(task.mustArriveBy)
        arriveTime == ArriveTarget(mustArrive)
        departTime == JsSub(arriveTime, Num(travelMinutes * MsPerMinute))
    IN  [taskId |-> task.id,
         departTime |-> IF timed THEN DateAt(departTime) ELSE NoDate,
         arriveTime |-> IF timed THEN DateAt(arriveTime) ELSE NoDate,
         durationMinutes |-> IF task.durationMinutes.nan \/ task.durationMinutes.v = 0
                             THEN Num(30) ELSE task.durationMinutes,
         travelMinutes |-> travelMinutes,
         isFixed |-> task.fixedTime,
         deadline |-> IF task.fixedTime THEN DateAt(DateOf(task.mustArriveBy)) ELSE NoDate]

\* createTimeAwareSchedule(tasks, route) of App.jsx 6-39
createTimeAwareScheduleBackward(ts, r) ==
    IF Len(r.legs) < Len(ts)
    THEN [threw |-> TRUE, schedule |-> <<>>]
    ELSE [threw |-> FALSE,
          schedule |-> [i \in 1..Len(ts) |-> BackwardItem(ts[i], r.legs[i])]]

BackwardTightUpToThreshold(s) ==
    IF ~s.isFixed THEN ""
    ELSE IF s.arriveTime.isNull \/ s.deadline.isNull THEN ""
    ELSE IF JsGreater(s.arriveTime.t, s.deadline.t) THEN "LATE"
    ELSE IF ~JsGreater(JsSub(s.deadline.t, s.arriveTime.t), Num(TightMinutes * MsPerMinute))
         THEN "TIGHT"
    ELSE "ON TIME"

\* statusIcon of the backward handleRouteCalculated (App.jsx 84-88)
StatusIconBackward(s) ==
    IF ~s.isFixed THEN ""
    ELSE IF s.arriveTime.isNull \/ s.deadline.isNull THEN ""
    ELSE IF JsGreater(s.arriveTime.t, s.deadline.t) THEN "LATE"
    ELSE IF JsLess(JsSub(s.deadline.t, s.arriveTime.t), Num(TightMinutes * MsPerMinute))
         THEN "TIGHT"
    ELSE "ON TIME"

-----------------------------------------------------------------------------
(* The resolver: findNearbyPlace and resolveLocations *)

\* a lat or lng property is a number or undefined
IsNumber(x) == "nan" \in DOMAIN x

\* task.lat && task.lng && !isNaN(task.lat) && !isNaN(task.lng): undefined,
\* NaN and 0 do not count as a coordinate
ValidCoordinates(task) ==
    \A c \in {task.lat, task.lng} : IsNumber(c) /\ ~c.nan /\ c.v # 0

NoPlace == [found |-> FALSE, name |-> "", address |-> "", lat |-> NaN, lng |-> NaN]

\* what findWithPlacesAPI resolves to
PlacesResult(query, answer) ==
    IF answer.places = "OK"
    THEN [found |-> TRUE, name |-> "place", address |-> "formatted_address",
          lat |-> Num(31), lng |-> Num(-96)]
    ELSE NoPlace

\* what findWithGeocodingAPI resolves to
GeocodingResult(query, answer) ==
    IF answer.geocoding = "OK"
    THEN [found |-> TRUE, name |-> query, address |-> "formatted_address",
          lat |-> Num(32), lng |-> Num(-96)]
    ELSE NoPlace

PrefersGeocoding(query, answer) ==
    IF GeocodingResult(query, answer).found THEN GeocodingResult(query, answer)
    ELSE IF PlacesResult(query, answer).found THEN PlacesResult(query, answer)
    ELSE NoPlace

\* the lookups findNearbyPlace awaits, in order (lines 99-108): the
\* Geocoding lookup only after the Places lookup came back with nothing
LookupCalls(query, answer) ==
    IF PlacesResult(query, answer).found THEN <<"places">>
    ELSE <<"places", "geocoding">>

\* findNearbyPlace: the Places result, else the Geocoding result, else null
findNearbyPlace(query, answer) ==
    IF PlacesResult(query, answer).found THEN PlacesResult(query, answer)
    ELSE IF GeocodingResult(query, answer).found THEN GeocodingResult(query, answer)
    ELSE NoPlace

KeepsUnresolved(resolved, task, place) == Append(resolved, task)

\* lines 141-151: a task whose place was found is pushed with the place's
\* address, coordinates and name, any other task is skipped
PushResolved(resolved, task, place) ==
    IF place.found
    THEN Append(resolved, [task EXCEPT !.address = place.address,
                                       !.lat = place.lat,
                                       !.lng = place.lng,
                                       !.location = place.name])
    ELSE resolved

\* the for loop of lines 131-152 over the first n tasks
RECURSIVE ResolveLoop(_, _, _)
ResolveLoop(ts, answers, n) ==
    IF n = 0 THEN <<>>
    ELSE LET resolved == ResolveLoop(ts, answers, n - 1)
         IN  IF ValidCoordinates(ts[n])
             THEN Append(resolved, ts[n])
             ELSE PushResolved(resolved, ts[n],
                               findNearbyPlace(ts[n].location, answers[n]))

\* resolveLocations(tasks, userLocation), with what the lookups answer
resolveLocations(ts, loaded, answers) ==
    IF ~loaded THEN <<>> ELSE ResolveLoop(ts, answers, Len(ts))

\* the lookups resolveLocations consults for the first n tasks: those of
\* findNearbyPlace for each task without valid coordinates
RECURSIVE LookupLoop(_, _, _)
LookupLoop(ts, answers, n) ==
    IF n = 0 THEN <<>>
    ELSE LET before == LookupLoop(ts, answers, n - 1)
             calls == LookupCalls(ts[n].location, answers[n])
         IN  IF ValidCoordinates(ts[n]) THEN before
             ELSE before \o [c \in 1..Len(calls) |-> [id |-> ts[n].id, lookup |-> calls[c]]]

LookupsOf(ts, loaded, answers) ==
    IF ~loaded THEN <<>> ELSE LookupLoop(ts, answers, Len(ts))

-----------------------------------------------------------------------------
(* The optimizer: optimizeRouteWithFeatherless *)

NoReply == [kind |-> "none", tasks |-> <<>>]

Unsettled == [settled |-> FALSE, threw |-> FALSE, tasks |-> <<>>]

\* optimizeRouteWithFeatherless(tasks, userLocation) for a reply of the API:
\* the promise rejects when the request fails, when the body has no choices
\* and when the text of the first choice is no JSON; else it resolves to the
\* parsed array
optimizeRouteWithFeatherless(ts, loc, reply) ==
    IF reply.kind = "array"
    THEN [settled |-> TRUE, threw |-> FALSE, tasks |-> reply.tasks]
    ELSE [settled |-> TRUE, threw |-> TRUE, tasks |-> <<>>]

-----------------------------------------------------------------------------
(* The order scheduler: createSchedule (App.jsx 307-345) *)

\* the keys of [...tasks].sort((a, b) => a.order - b.order)
OrderKeys(ts) == [i \in 1..Len(ts) |-> ts[i].order]

\* one round of the loop of createSchedule (lines 315-341) for a task,
\* with the clock at time
PlannedItem(task, time) ==
    LET travel == IF task.estimatedTravelMinutes.nan \/ task.estimatedTravelMinutes.v = 0
                  THEN Num(0) ELSE task.estimatedTravelMinutes
        arrival == JsAdd(time, JsMul(travel, Num(MsPerMinute)))
        stay == JsMul(task.durationMinutes, Num(MsPerMinute))
        mustArrive == DateOf(task.mustArriveBy)
        pulledBack == /\ task.fixedTime
                      /\ Truthy(task.mustArriveBy)
                      /\ JsGreater(JsAdd(arrival, stay), mustArrive)
    IN  [taskId |-> task.id,
         startTime |-> IF pulledBack THEN JsSub(mustArrive, stay) ELSE arrival,
         endTime |-> IF pulledBack THEN mustArrive ELSE JsAdd(arrival, stay)]

RECURSIVE PlannedSchedule(_, _, _)
PlannedSchedule(sortedTasks, currentTime, n) ==
    IF n = 0 THEN <<>>
    ELSE LET before == PlannedSchedule(sortedTasks, currentTime, n - 1)
             time == IF n = 1 THEN currentTime ELSE before[n - 1].endTime
         IN  Append(before, PlannedItem(sortedTasks[n], time))

\* the schedules createSchedule(tasks, currentLocation, currentTime) may
\* return
createSchedule(ts, currentTime) ==
    {PlannedSchedule(Pick(ts, idx), Num(currentTime), Len(ts)) :
        idx \in SortOutcomes(OrderKeys(ts))}

-----------------------------------------------------------------------------
(* The session: App (part_000 45-291) around Map (App.jsx 551-743) *)

\* App and Map after construction: no location yet, nothing loaded, nothing
\* on the map
InitialApp ==
    [isLoading |-> FALSE,        \* App state isLoading
     mapsLoaded |-> FALSE,       \* App state mapsLoaded
     librariesLoaded |-> FALSE,  \* Map state librariesLoaded, with mapInstanceRef
     located |-> FALSE,          \* App state userLocation is not null
     send |-> "idle",            \* where handleSend is waiting
     extractedTasks |-> <<>>,    \* handleSend's extractedTasks
     allTasks |-> <<>>,          \* App state allTasks
     pending |-> <<>>,           \* route requests without an answer yet
     lastStatus |-> "",          \* status of the latest route callback
     markers |-> <<>>,           \* markersRef.current: positions of the markers
     rendered |-> NoDirections,  \* what directionsRenderer shows
     messages |-> <<>>,          \* App state messages
     sends |-> 0]                \* how often handleSend got past its checks

ControlsAlwaysEnabled(a) == TRUE

\* the input and the Send button: disabled={isLoading || !mapsLoaded}
\* (part_000 261, 266), and Enter asks for !isLoading (part_000 191)
ControlsEnabled(a) == ~a.isLoading /\ a.mapsLoaded

FailedKeepsLoading(a, text) ==
    [a EXCEPT !.send = "idle", !.messages = Append(@, text)]

\* the failure exits of handleSend after setIsLoading(true): a message and
\* setIsLoading(false) (part_000 148-152, 161-168, 183-187)
HandleSendFailed(a, text) ==
    [a EXCEPT !.isLoading = FALSE, !.send = "idle", !.messages = Append(@, text)]

\* the route effect of Map (App.jsx 625-635) for the tasks ts: the App and
\* Map states it may leave behind
RouteEffect(a, ts, loc) ==
    IF ~a.librariesLoaded \/ ~a.located \/ Len(ts) = 0
    THEN {a}
    ELSE {[a EXCEPT !.markers = <<>>,
                    !.rendered = NoDirections,
                    !.pending = @ \o drawFinalRoute(order, loc)] :
             order \in calculateOptimalRoute(ts, loc)}

InvokesOnAnyStatus(status) == TRUE

\* the route callback calls onRouteCalculated in its "OK" branch only
\* (App.jsx 703-709)
InvokesRouteCalculated(status) == status = "OK"

\* a sequence without its i-th element
Without(seq, i) == SubSeq(seq, 1, i - 1) \o SubSeq(seq, i + 1, Len(seq))

\* drawMarkers(orderedTasks): one marker for each task
MarkersOf(ordered) == [i \in 1..Len(ordered) |-> PointOf(ordered[i])]

\* statuses a route callback may come with
RouteStatuses == {"OK", "ZERO_RESULTS"}

-----------------------------------------------------------------------------
(* Inputs *)

\* latitudes of the flexible tasks, and the user's locations
Lats == {0, 2, 3}

Origins == {[lat |-> 0, lng |-> 0], [lat |-> 1, lng |-> 0]}

\* The sequencer's tasks.  Fixed tasks carry the deadline 08:30 or 09:00, or
\* none (null or undefined); flexible tasks carry none, or one without the
\* flag.
SeqTaskShapes ==
    [fixedTime : {TRUE}, mustArriveBy : {Iso(Minutes(510)), Iso(Minutes(540))},
     lat : {0, 2}, durationMinutes : {Num(30)}]
    \cup [fixedTime : {TRUE}, mustArriveBy : {NullValue, Undefined},
          lat : {2}, durationMinutes : {Num(30)}]
    \cup [fixedTime : {FALSE}, mustArriveBy : {NullValue},
          lat : Lats, durationMinutes : {Num(30)}]
    \cup [fixedTime : {FALSE}, mustArriveBy : {Iso(Minutes(510))},
          lat : {2}, durationMinutes : {Num(30)}]

\* the task list built from the shapes f[1], ..., f[k]; the i-th task has
\* the id i and lies on the meridian lng = 0
TaskList(f, k) ==
    [i \in 1..k |->
        [id |-> i,
         fixedTime |-> f[i].fixedTime,
         mustArriveBy |-> f[i].mustArriveBy,
         lat |-> f[i].lat,
         lng |-> 0,
         durationMinutes |-> f[i].durationMinutes]]

\* new Date() of the timeline runs: 08:00
NowMinutes == 8 * 60

\* deadlines of the timeline's stops, in minutes after 08:00
DeadlineOffsets == {1, 2, 5, 7, 12, 45}

\* The timeline's stops.  durationMinutes is 30, or missing (undefined, NaN
\* as a number), or negative.
StopShapes ==
    [fixedTime : {TRUE},
     mustArriveBy : {Iso(Minutes(NowMinutes + k)) : k \in DeadlineOffsets}
                    \cup {NullValue, Undefined},
     lat : {0}, durationMinutes : {Num(30)}]
    \cup [fixedTime : {FALSE},
          mustArriveBy : {NullValue, Iso(Minutes(NowMinutes + 12))},
          lat : {0}, durationMinutes : {Num(30)}]
    \cup [fixedTime : {TRUE, FALSE}, mustArriveBy : {Iso(Minutes(NowMinutes + 45))},
          lat : {0}, durationMinutes : {NaN}]
    \cup [fixedTime : {FALSE}, mustArriveBy : {NullValue},
          lat : {0}, durationMinutes : {Num(-10), Num(0)}]

\* leg.duration.value, in seconds
LegSeconds == {61, 600}

NoRoute == [legs |-> <<>>]

\* the leg lists of a route for k stops: one leg for each stop, or the last
\* leg missing
LegLists(k) ==
    [1..k -> LegSeconds] \cup (IF k > 0 THEN [1..(k - 1) -> LegSeconds] ELSE {})

NoPrevious ==
    [has |-> FALSE, orderedTasks |-> <<>>, route |-> NoRoute, now |-> 0,
     schedule |-> <<>>, statusIcons |-> <<>>]

\* The resolver's tasks: without coordinates, with coordinates, or with a
\* latitude of 0
QueryShapes ==
    {[lat |-> Undefined, lng |-> Undefined],
     [lat |-> Num(30), lng |-> Num(-96)],
     [lat |-> Num(0), lng |-> Num(-96)]}

QueryList(f, k) ==
    [i \in 1..k |->
        [id |-> i, location |-> "query", address |-> "",
         lat |-> f[i].lat, lng |-> f[i].lng]]

\* what the Places and the Geocoding lookup answer for one query
LookupAnswers == [places : {"OK", "ZERO_RESULTS"}, geocoding : {"OK", "ZERO_RESULTS"}]

\* what one message of the user resolves to: one flexible task, or a
\* flexible task and a fixed one
AppTaskLists ==
    {TaskList(<<[fixedTime |-> FALSE, mustArriveBy |-> NullValue, lat |-> 3,
                 durationMinutes |-> Num(30)]>>, 1),
     TaskList(<<[fixedTime |-> FALSE, mustArriveBy |-> NullValue, lat |-> 3,
                 durationMinutes |-> Num(30)],
                [fixedTime |-> TRUE, mustArriveBy |-> Iso(Minutes(NowMinutes + 45)),
                 lat |-> 2, durationMinutes |-> Num(30)]>>, 2)}

\* how an awaited call of handleSend settles: it throws, or returns tasks
Thrown == [kind |-> "throws", tasks |-> <<>>]

Returned(ts) == [kind |-> "returns", tasks |-> ts]

\* the planned tasks createSchedule is called with: an order, the minutes
\* to get there, half an hour's stay, and no deadline or one 20 or 90
\* minutes after the current time
PlanShapes ==
    [order : {Num(1), Num(2)},
     estimatedTravelMinutes : {Num(0), Num(10)},
     durationMinutes : {Num(30)},
     deadline : {[fixedTime |-> FALSE, mustArriveBy |-> NullValue],
                 [fixedTime |-> TRUE, mustArriveBy |-> Iso(Minutes(NowMinutes + 20))],
                 [fixedTime |-> TRUE, mustArriveBy |-> Iso(Minutes(NowMinutes + 90))]}]

PlanList(f, k) ==
    [i \in 1..k |->
        [id |-> i,
         order |-> f[i].order,
         estimatedTravelMinutes |-> f[i].estimatedTravelMinutes,
         durationMinutes |-> f[i].durationMinutes,
         fixedTime |-> f[i].deadline.fixedTime,
         mustArriveBy |-> f[i].deadline.mustArriveBy,
         lat |-> 0,
         lng |-> 0]]

\* the tasks of ts marked in keep, in their order
RECURSIVE Kept(_, _, _)
Kept(ts, keep, n) ==
    IF n = 0 THEN <<>>
    ELSE IF keep[n] THEN Append(Kept(ts, keep, n - 1), ts[n])
    ELSE Kept(ts, keep, n - 1)

\* what resolveLocations may return for ts: the tasks whose place was
\* found, in their order
ResolutionOutcomes(ts) ==
    {Kept(ts, keep, Len(ts)) : keep \in [1..Len(ts) -> BOOLEAN]}

\* what the input holds when the user sends
InputTexts == {"", "errands"}

\* The optimizer's tasks
OptimizerShapes ==
    [fixedTime : {TRUE}, mustArriveBy : {Iso(Minutes(510))},
     lat : {2}, durationMinutes : {Num(30)}]
    \cup [fixedTime : {FALSE}, mustArriveBy : {NullValue},
          lat : {0, 3}, durationMinutes : {Num(30)}]

\* what the featherless.ai request may come back with: a rejected fetch, a
\* body without choices, a text that is no JSON, or a JSON array of the tasks
\* in some order
ApiReplies(ts) ==
    {[kind |-> k, tasks |-> <<>>] : k \in {"rejected", "noChoices", "notJson"}}
    \cup {[kind |-> "array", tasks |-> Pick(ts, f)] : f \in Permutations(Len(ts))}

-----------------------------------------------------------------------------
(* The runs *)

InitSequencer ==
    /\ unit = "sequencer"
    /\ pc = "effect"
    /\ \E k \in 0..MaxTasks : \E f \in [1..k -> SeqTaskShapes] :
          tasks = TaskList(f, k)
    /\ userLocation \in Origins
    /\ orderedTasks = <<>>
    /\ route = NoRoute
    /\ now = 0
    /\ geocoderLoaded = TRUE
    /\ lookups = <<>>
    /\ apiReply = NoReply

InitTimeline ==
    /\ unit = "timeline"
    /\ pc = "callback"
    /\ tasks = <<>>
    /\ userLocation = [lat |-> 0, lng |-> 0]
    /\ \E k \in 0..MaxStops : \E f \in [1..k -> StopShapes] :
          /\ orderedTasks = TaskList(f, k)
          /\ \E l \in LegLists(k) : route = [legs |-> l]
    /\ now = Minutes(NowMinutes)
    /\ geocoderLoaded = TRUE
    /\ lookups = <<>>
    /\ apiReply = NoReply

\* handleSend has the extracted tasks and calls resolveLocations
InitResolver ==
    /\ unit = "resolver"
    /\ pc = "resolve"
    /\ \E k \in 0..MaxStops :
          /\ \E f \in [1..k -> QueryShapes] : tasks = QueryList(f, k)
          /\ lookups \in [1..k -> LookupAnswers]
    /\ userLocation \in Origins
    /\ geocoderLoaded \in BOOLEAN
    /\ orderedTasks = <<>>
    /\ route = NoRoute
    /\ now = 0
    /\ apiReply = NoReply

\* a caller has tasks and calls optimizeRouteWithFeatherless
InitOptimizer ==
    /\ unit = "optimizer"
    /\ pc = "optimize"
    /\ \E k \in 0..MaxStops : \E f \in [1..k -> OptimizerShapes] :
          /\ tasks = TaskList(f, k)
          /\ apiReply \in ApiReplies(TaskList(f, k))
    /\ userLocation \in Origins
    /\ geocoderLoaded = TRUE
    /\ lookups = <<>>
    /\ orderedTasks = <<>>
    /\ route = NoRoute
    /\ now = 0

\* the App is mounted: no tasks, no location, the maps not loaded
InitSession ==
    /\ unit = "session"
    /\ pc = "mounted"
    /\ tasks = <<>>
    /\ userLocation = [lat |-> 1, lng |-> 0]
    /\ orderedTasks = <<>>
    /\ route = NoRoute
    /\ now = Minutes(NowMinutes)
    /\ geocoderLoaded = TRUE
    /\ lookups = <<>>
    /\ apiReply = NoReply

\* handleSend has the planned tasks and calls createSchedule
InitPlanner ==
    /\ unit = "planner"
    /\ pc = "plan"
    /\ \E k \in 0..MaxStops : \E f \in [1..k -> PlanShapes] : tasks = PlanList(f, k)
    /\ userLocation = [lat |-> 0, lng |-> 0]
    /\ orderedTasks = <<>>
    /\ route = NoRoute
    /\ now = Minutes(NowMinutes)
    /\ geocoderLoaded = TRUE
    /\ lookups = <<>>
    /\ apiReply = NoReply

Init ==
    /\ \/ InitSequencer
       \/ InitTimeline
       \/ InitResolver
       \/ InitOptimizer
       \/ InitSession
       \/ InitPlanner
    /\ app = InitialApp
    /\ finalOrder = <<>>
    /\ routeRequests = <<>>
    /\ policy = "none"
    /\ schedule = <<>>
    /\ statusIcons = <<>>
    /\ directions = NoDirections
    /\ previous = NoPrevious
    /\ resolvedTasks = <<>>
    /\ optimized = Unsettled
    /\ lookupLog = <<>>

\* the effect of App.jsx 625-635 with the map and its libraries loaded:
\* nothing for an empty task list, else calculateOptimalRoute, which ends in
\* drawFinalRoute
MapRouteEffect ==
    /\ unit = "sequencer"
    /\ pc = "effect"
    /\ IF Len(tasks) = 0
       THEN /\ pc' = "idle"
            /\ UNCHANGED <<tasks, finalOrder, routeRequests>>
       ELSE \E order \in calculateOptimalRoute(tasks, userLocation) :
                /\ tasks' = TasksAfterRoute(tasks, order)
                /\ finalOrder' = order
                /\ routeRequests' = routeRequests \o drawFinalRoute(order, userLocation)
                /\ pc' = IF Len(order) = 0 THEN "idle" ELSE "routing"
    /\ UNCHANGED <<unit, userLocation, directions>>
    /\ UNCHANGED <<timelineVars, resolverVars, optimizerVars, app>>

\* the callback of directionsService.route with status "OK" (App.jsx 703-706):
\* onRouteCalculated receives the order that was requested and the route
DirectionsOK ==
    /\ unit = "sequencer"
    /\ pc = "routing"
    /\ pc' = "routed"
    /\ LET req == routeRequests[Len(routeRequests)]
       IN  \E result \in DirectionsResults(req) :
               /\ directions' = result
               /\ orderedTasks' = req.orderedTasks
               /\ route' = [legs |-> [i \in 1..Len(result.legs) |->
                                        result.legs[i].duration]]
    /\ UNCHANGED <<unit, tasks, userLocation, finalOrder, routeRequests, now,
                   policy, schedule, statusIcons, previous>>
    /\ UNCHANGED <<resolverVars, optimizerVars, app>>

\* the callback with any other status (App.jsx 707-709)
DirectionsFailed ==
    /\ unit = "sequencer"
    /\ pc = "routing"
    /\ pc' = "routeFailed"
    /\ UNCHANGED <<unit, tasks, userLocation>>
    /\ UNCHANGED <<sequencerVars, timelineVars, resolverVars, optimizerVars, app>>

\* handleRouteCalculated of part_000 86-120
HandleRouteCalculated ==
    /\ unit = "timeline"
    /\ pc = "callback"
    /\ policy \in {"none", "forward"}
    /\ LET built == createTimeAwareSchedule(orderedTasks, route, now)
       IN  IF built.threw
           THEN /\ pc' = "threw"
                /\ UNCHANGED <<schedule, statusIcons>>
           ELSE /\ pc' = "scheduled"
                /\ schedule' = built.schedule
                /\ statusIcons' =
                     [i \in 1..Len(built.schedule) |-> StatusIcon(built.schedule[i])]
    /\ policy' = "forward"
    /\ UNCHANGED <<unit, tasks, userLocation, orderedTasks, route, now, previous>>
    /\ UNCHANGED <<sequencerVars, resolverVars, optimizerVars, app>>

\* handleRouteCalculated of App.jsx 78-115
HandleRouteCalculatedBackward ==
    /\ unit = "timeline"
    /\ pc = "callback"
    /\ policy \in {"none", "backward"}
    /\ LET built == createTimeAwareScheduleBackward(orderedTasks, route)
       IN  IF built.threw
           THEN /\ pc' = "threw"
                /\ UNCHANGED <<schedule, statusIcons>>
           ELSE /\ pc' = "scheduled"
                /\ schedule' = built.schedule
                /\ statusIcons' =
                     [i \in 1..Len(built.schedule) |->
                        StatusIconBackward(built.schedule[i])]
    /\ policy' = "backward"
    /\ UNCHANGED <<unit, tasks, userLocation, orderedTasks, route, now, previous>>
    /\ UNCHANGED <<sequencerVars, resolverVars, optimizerVars, app>>

\* the route callback calls onRouteCalculated once more for the same ordered
\* tasks (App.jsx 702-706): in the same millisecond or a minute later, with
\* the same route or with one whose last leg is missing
RouteCalculatedAgain ==
    /\ unit = "timeline"
    /\ pc = "scheduled"
    /\ ~previous.has
    /\ previous' = [has |-> TRUE, orderedTasks |-> orderedTasks, route |-> route,
                    now |-> now, schedule |-> schedule, statusIcons |-> statusIcons]
    /\ \E later \in {0, 1} : \E short \in BOOLEAN :
          /\ short => (later = 1 /\ Len(route.legs) > 0)
          /\ now' = now + Minutes(later)
          /\ route' = IF short
                      THEN [legs |-> SubSeq(route.legs, 1, Len(route.legs) - 1)]
                      ELSE route
    /\ pc' = "callback"
    /\ UNCHANGED <<unit, tasks, userLocation, orderedTasks, policy, schedule,
                   statusIcons>>
    /\ UNCHANGED <<sequencerVars, resolverVars, optimizerVars, app>>

\* handleSend awaits resolveLocations(extractedTasks, userLocation)
\* (App.jsx 141)
ResolveLocations ==
    /\ unit = "resolver"
    /\ pc = "resolve"
    /\ resolvedTasks' = resolveLocations(tasks, geocoderLoaded, lookups)
    /\ lookupLog' = LookupsOf(tasks, geocoderLoaded, lookups)
    /\ pc' = "resolved"
    /\ UNCHANGED <<unit, tasks, userLocation, geocoderLoaded, lookups>>
    /\ UNCHANGED <<sequencerVars, timelineVars, optimizerVars, app>>

\* the promise of optimizeRouteWithFeatherless(tasks, userLocation) settles
OptimizeRoute ==
    /\ unit = "optimizer"
    /\ pc = "optimize"
    /\ optimized' = optimizeRouteWithFeatherless(tasks, userLocation, apiReply)
    /\ pc' = "settled"
    /\ UNCHANGED <<unit, tasks, userLocation, apiReply>>
    /\ UNCHANGED <<sequencerVars, timelineVars, resolverVars, app>>

sessionFrame ==
    <<unit, pc, userLocation, finalOrder, routeRequests, directions, orderedTasks,
      route, now, policy, previous, resolverVars, optimizerVars>>

\* the interval of part_000 76-81 finds the Places library
PlacesDetected ==
    /\ unit = "session"
    /\ ~app.mapsLoaded
    /\ app' = [app EXCEPT !.mapsLoaded = TRUE]
    /\ UNCHANGED <<tasks, schedule, statusIcons, sessionFrame>>

\* the libraries are loaded and the map is made (App.jsx 572-589):
\* setLibrariesLoaded(true), onMapsReady, and the route effect runs again
MapsReady ==
    /\ unit = "session"
    /\ ~app.librariesLoaded
    /\ app' \in RouteEffect([app EXCEPT !.librariesLoaded = TRUE, !.mapsLoaded = TRUE],
                             tasks, userLocation)
    /\ UNCHANGED <<tasks, schedule, statusIcons, sessionFrame>>

\* geolocation answers or fails (part_000 66-73): setUserLocation, and the
\* route effect runs again
GeolocationSettled ==
    /\ unit = "session"
    /\ ~app.located
    /\ app' \in RouteEffect([app EXCEPT !.located = TRUE], tasks, userLocation)
    /\ UNCHANGED <<tasks, schedule, statusIcons, sessionFrame>>

\* the user clicks Send or presses Enter: handleSend up to its first await
\* (part_000 122-139)
HandleSend ==
    /\ unit = "session"
    /\ ControlsEnabled(app)
    /\ app.send = "idle"
    /\ app.sends < MaxSends
    /\ \E input \in InputTexts :
          app' = IF input = "" \/ ~app.located THEN app
                 ELSE IF ~app.mapsLoaded
                      THEN [app EXCEPT !.messages =
                               @ \o <<"user", "Please wait for maps to load...">>]
                 ELSE [app EXCEPT !.messages = Append(@, "user"),
                                  !.isLoading = TRUE,
                                  !.send = "extracting",
                                  !.sends = @ + 1]
    /\ UNCHANGED <<tasks, schedule, statusIcons, sessionFrame>>

\* extractTasksFromText settles (part_000 139-157)
ExtractionSettled ==
    /\ unit = "session"
    /\ app.send = "extracting"
    /\ \E outcome \in {Thrown, Returned(<<>>)} \cup {Returned(ts) : ts \in AppTaskLists} :
          app' = IF outcome.kind = "throws" THEN HandleSendFailed(app, "Error")
                 ELSE IF Len(outcome.tasks) = 0
                      THEN HandleSendFailed(app, "No tasks found in your message.")
                 ELSE [app EXCEPT !.extractedTasks = outcome.tasks,
                                  !.send = "resolving",
                                  !.messages = Append(@, "Finding locations...")]
    /\ UNCHANGED <<tasks, schedule, statusIcons, sessionFrame>>

\* resolveLocations settles (part_000 157-187): without a resolved task a
\* failure exit, else setAllTasks, setTasks, and the route effect of Map
\* runs for the new tasks
ResolutionSettled ==
    /\ unit = "session"
    /\ app.send = "resolving"
    /\ \E outcome \in {Thrown} \cup
                      {Returned(ts) : ts \in ResolutionOutcomes(app.extractedTasks)} :
          IF outcome.kind = "throws" \/ Len(outcome.tasks) = 0
          THEN /\ app' = HandleSendFailed(app,
                            IF outcome.kind = "throws" THEN "Error"
                            ELSE "Could not find locations.")
               /\ UNCHANGED tasks
          ELSE /\ tasks' = outcome.tasks
               /\ app' \in RouteEffect(
                     [app EXCEPT !.allTasks = outcome.tasks,
                                 !.send = "idle",
                                 !.messages =
                                    Append(SelectSeq(@, LAMBDA m : m # "Finding locations..."),
                                           "Found")],
                     outcome.tasks, userLocation)
    /\ UNCHANGED <<schedule, statusIcons, sessionFrame>>

\* the callback of a route request (App.jsx 702-710): with "OK" the route
\* is shown, the markers are drawn and onRouteCalculated runs
\* handleRouteCalculated (part_000 86-120); else nothing but a log line
RouteCallback ==
    /\ unit = "session"
    /\ \E i \in 1..Len(app.pending) : \E status \in RouteStatuses :
          \E result \in DirectionsResults(app.pending[i]) :
            LET req == app.pending[i]
                legs == [k \in 1..Len(result.legs) |-> result.legs[k].duration]
                built == createTimeAwareSchedule(req.orderedTasks, [legs |-> legs], now)
                shown == IF status = "OK"
                         THEN [app EXCEPT !.pending = Without(@, i),
                                          !.lastStatus = status,
                                          !.rendered = result,
                                          !.markers = MarkersOf(req.orderedTasks)]
                         ELSE [app EXCEPT !.pending = Without(@, i),
                                          !.lastStatus = status]
            IN  IF InvokesRouteCalculated(status) /\ ~built.threw
                THEN /\ schedule' = built.schedule
                     /\ statusIcons' =
                          [k \in 1..Len(built.schedule) |-> StatusIcon(built.schedule[k])]
                     /\ app' = [shown EXCEPT
                                  !.messages = Append(@, "Here's your optimized schedule"),
                                  !.isLoading = FALSE]
                ELSE /\ app' = shown
                     /\ UNCHANGED <<schedule, statusIcons>>
    /\ UNCHANGED <<tasks, sessionFrame>>

\* the Clear button, rendered while allTasks is not empty (part_000
\* 194-199, 210-225); the route effect returns at once for no tasks
HandleClearSchedule ==
    /\ unit = "session"
    /\ Len(app.allTasks) > 0
    /\ tasks' = <<>>
    /\ schedule' = <<>>
    /\ app' \in RouteEffect([app EXCEPT !.allTasks = <<>>,
                                         !.messages = Append(@, "Schedule cleared!")],
                             <<>>, userLocation)
    /\ UNCHANGED <<statusIcons, sessionFrame>>

\* createSchedule(plannedTasks, location, currentTimeIso) of App.jsx 412
CreateSchedule ==
    /\ unit = "planner"
    /\ pc = "plan"
    /\ schedule' \in createSchedule(tasks, now)
    /\ pc' = "planned"
    /\ UNCHANGED <<unit, tasks, userLocation, orderedTasks, route, now, policy,
                   statusIcons, previous, sequencerVars, resolverVars,
                   optimizerVars, app>>

Next ==
    \/ CreateSchedule
    \/ PlacesDetected
    \/ MapsReady
    \/ GeolocationSettled
    \/ HandleSend
    \/ ExtractionSettled
    \/ ResolutionSettled
    \/ RouteCallback
    \/ HandleClearSchedule
    \/ MapRouteEffect
    \/ DirectionsOK
    \/ DirectionsFailed
    \/ HandleRouteCalculated
    \/ HandleRouteCalculatedBackward
    \/ RouteCalculatedAgain
    \/ ResolveLocations
    \/ OptimizeRoute

Spec == Init /\ [][Next]_vars

-----------------------------------------------------------------------------
(* Properties of the sequencer *)

\* the sequencer has run on a non-empty task list
Sequenced == unit = "sequencer" /\ pc \in {"routing", "routed", "routeFailed"}

Positions(seq, id) == {i \in 1..Len(seq) : seq[i].id = id}

\* position in the input of the task at position i of the output
InputIndex(i) == CHOOSE k \in 1..Len(tasks) : tasks[k].id = finalOrder[i].id

Dated(t) == t.mustArriveBy.kind = "iso"

FixedBlock == SelectSeq(finalOrder, LAMBDA t : t.fixedTime)

\* the point the flexible tasks of the output are ranked against
Anchor ==
    IF Len(FixedBlock) > 0 THEN PointOf(FixedBlock[Len(FixedBlock)])
    ELSE userLocation

AnchorDistance(t) == Abs(Anchor.lat - t.lat)

\* C1: the order the sequencer produces is a permutation of its input: every
\* task of the input occurs in it exactly once, unchanged, whatever the
\* tasks' fixedTime and mustArriveBy.
C1_Permutation ==
    Sequenced =>
        /\ Len(finalOrder) = Len(tasks)
        /\ \A k \in 1..Len(tasks) :
              /\ Cardinality(Positions(finalOrder, tasks[k].id)) = 1
              /\ \E i \in 1..Len(finalOrder) : finalOrder[i] = tasks[k]

C1_Witness ==
    /\ Sequenced
    /\ Len(tasks) = 3
    /\ ~tasks[1].fixedTime /\ Dated(tasks[1])
    /\ tasks[2].fixedTime /\ tasks[2].mustArriveBy = Undefined
    /\ tasks[3].fixedTime /\ Dated(tasks[3])
    /\ finalOrder = <<tasks[2], tasks[3], tasks[1]>>

\* C2: every fixed task of the output precedes every flexible one.
C2_FixedFirst ==
    Sequenced =>
        \A i, j \in 1..Len(finalOrder) :
            (finalOrder[i].fixedTime /\ ~finalOrder[j].fixedTime) => i < j

\* input [a flexible, b fixed] with a nearer to the user than b gives [b, a]
C2_Witness ==
    /\ Sequenced
    /\ Len(tasks) = 2
    /\ ~tasks[1].fixedTime /\ tasks[2].fixedTime /\ Dated(tasks[2])
    /\ Abs(userLocation.lat - tasks[1].lat) < Abs(userLocation.lat - tasks[2].lat)
    /\ finalOrder = <<tasks[2], tasks[1]>>

\* C3: the fixed tasks of the output are in non-decreasing mustArriveBy
\* order, for every input: a task with a later deadline never stands before
\* one with an earlier deadline.
C3_DeadlineOrder ==
    Sequenced =>
        \A i, j \in 1..Len(finalOrder) :
            (/\ i < j
             /\ finalOrder[i].fixedTime /\ Dated(finalOrder[i])
             /\ finalOrder[j].fixedTime /\ Dated(finalOrder[j]))
            => finalOrder[i].mustArriveBy.ms <= finalOrder[j].mustArriveBy.ms

\* new Date(mustArriveBy) is a valid date for every fixed task of the input
NoInvalidDate ==
    \A k \in 1..Len(tasks) : tasks[k].fixedTime => ~DateOf(tasks[k].mustArriveBy).nan

C4_NotChained ==
    /\ Sequenced
    /\ Len(tasks) = 3
    /\ userLocation.lat = 1
    /\ \A k \in 1..3 : ~tasks[k].fixedTime
    /\ <<tasks[1].lat, tasks[2].lat, tasks[3].lat>> = <<2, 0, 3>>
    /\ finalOrder = tasks

-----------------------------------------------------------------------------
(* Properties of the timeline builders *)

\* handleRouteCalculated has stored a schedule
Scheduled == unit = "timeline" /\ pc = "scheduled"

Stops == 1..Len(schedule)

\* the time a stop is reached, under either policy
ArriveTime(i) ==
    IF policy = "forward" THEN schedule[i].startTime ELSE schedule[i].arriveTime.t

\* mustArriveBy - arriveTime of a stop, in milliseconds
Slack(i) == JsSub(DateOf(orderedTasks[i].mustArriveBy), ArriveTime(i))

\* C6: an empty task list is no error: the sequencer gives the empty order
\* and asks for no route, and either timeline builder called with no tasks
\* stores the empty schedule.
C6_EmptyList ==
    /\ (unit = "sequencer" /\ tasks = <<>>) =>
          /\ calculateOptimalRoute(tasks, userLocation) = {<<>>}
          /\ drawFinalRoute(tasks, userLocation) = <<>>
          /\ pc \in {"effect", "idle"}
          /\ finalOrder = <<>>
          /\ routeRequests = <<>>
    /\ (unit = "timeline" /\ orderedTasks = <<>> /\ pc # "callback") =>
          /\ pc = "scheduled"
          /\ schedule = <<>>
          /\ createTimeAwareSchedule(orderedTasks, route, now).schedule = <<>>
          /\ createTimeAwareScheduleBackward(orderedTasks, route).schedule = <<>>

C6_Witness ==
    /\ unit = "timeline"
    /\ orderedTasks = <<>>
    /\ route.legs = <<>>
    /\ policy = "forward"
    /\ pc = "scheduled"

\* C7: under both policies travelMinutes is the ceiling of the leg's
\* seconds / 60: the least number of minutes not shorter than the leg; a
\* leg of 61 seconds takes 2 minutes.
C7_TravelCeiling ==
    Scheduled =>
        \A i \in Stops :
            /\ schedule[i].travelMinutes * 60 >= route.legs[i]
            /\ (schedule[i].travelMinutes - 1) * 60 < route.legs[i]
            /\ route.legs[i] = 61 => schedule[i].travelMinutes = 2

C7_Witness ==
    /\ Scheduled
    /\ policy = "backward"
    /\ Len(schedule) = 2
    /\ route.legs = <<600, 61>>
    /\ schedule[1].travelMinutes = 10
    /\ schedule[2].travelMinutes = 2

\* sum of the first n elements of a sequence of JavaScript numbers
RECURSIVE JsSum(_, _)
JsSum(s, n) == IF n = 0 THEN Num(0) ELSE JsAdd(JsSum(s, n - 1), s[n])

TravelMs == [i \in 1..Len(route.legs) |-> Num(((route.legs[i] + 59) \div 60) * 60000)]

DurationMs ==
    [i \in 1..Len(orderedTasks) |-> JsMul(orderedTasks[i].durationMinutes, Num(60000))]

\* C8: forward accumulation: each stop is reached its leg's travel minutes
\* after the clock, left durationMinutes later, and the clock moves to the
\* departure; so a stop is reached at the start time plus the travel of all
\* legs up to it plus the durations of all stops before it.
C8_ForwardAccumulation ==
    (Scheduled /\ policy = "forward") =>
        /\ Len(schedule) = Len(orderedTasks)
        /\ \A i \in Stops :
              LET clock == IF i = 1 THEN Num(now) ELSE schedule[i - 1].endTime
              IN  /\ schedule[i].taskId = orderedTasks[i].id
                  /\ schedule[i].startTime = JsAdd(clock, TravelMs[i])
                  /\ schedule[i].endTime = JsAdd(schedule[i].startTime, DurationMs[i])
                  /\ schedule[i].startTime =
                        JsAdd(Num(now), JsAdd(JsSum(TravelMs, i), JsSum(DurationMs, i - 1)))

\* 08:00, legs of 61 s and 600 s, 30 minutes at the first stop: the stops
\* are reached at 08:02 and 08:42
C8_Witness ==
    /\ Scheduled
    /\ policy = "forward"
    /\ route.legs = <<61, 600>>
    /\ orderedTasks[1].durationMinutes = Num(30)
    /\ schedule[1].startTime = Num(Minutes(NowMinutes + 2))
    /\ schedule[1].endTime = Num(Minutes(NowMinutes + 32))
    /\ schedule[2].startTime = Num(Minutes(NowMinutes + 42))

\* C9: under forward accumulation a fixed stop gets exactly one of LATE,
\* TIGHT and ON TIME and any other stop none: LATE exactly when it is reached
\* after mustArriveBy, TIGHT when it is not late and less than 5 minutes
\* before mustArriveBy, ON TIME otherwise.
C9_Status ==
    (Scheduled /\ policy = "forward") =>
        \A i \in Stops :
            LET late == JsGreater(ArriveTime(i), DateOf(orderedTasks[i].mustArriveBy))
                tight == ~late /\ JsLess(Slack(i), Num(Minutes(5)))
            IN  /\ ~orderedTasks[i].fixedTime => statusIcons[i] = ""
                /\ orderedTasks[i].fixedTime =>
                      /\ statusIcons[i] \in {"LATE", "TIGHT", "ON TIME"}
                      /\ statusIcons[i] = "LATE" <=> late
                      /\ statusIcons[i] = "TIGHT" <=> tight
                      /\ statusIcons[i] = "ON TIME" <=> (~late /\ ~tight)

\* one minute after the deadline is LATE, and three minutes before it TIGHT
C9_Witness ==
    /\ Scheduled
    /\ policy = "forward"
    /\ Len(schedule) = 2
    /\ orderedTasks[1].fixedTime /\ Slack(1) = Num(-Minutes(1))
    /\ orderedTasks[2].fixedTime /\ Slack(2) = Num(Minutes(3))
    /\ statusIcons = <<"LATE", "TIGHT">>

\* ten minutes before the deadline is ON TIME, and a flexible stop has no
\* status
C9_WitnessOnTime ==
    /\ Scheduled
    /\ policy = "forward"
    /\ Len(schedule) = 2
    /\ orderedTasks[1].fixedTime /\ Slack(1) = Num(Minutes(10))
    /\ ~orderedTasks[2].fixedTime
    /\ statusIcons = <<"ON TIME", "">>

\* C10 as stated, for the stops whose slack is a number: a fixed stop is
\* ON TIME only with a slack of more than 5 minutes; with a slack of exactly
\* 5 minutes it is not ON TIME.
C10_OnTimeNeedsMoreThanFive ==
    Scheduled =>
        \A i \in Stops :
            (orderedTasks[i].fixedTime /\ statusIcons[i] = "ON TIME" /\ ~Slack(i).nan)
            => Slack(i).v > Minutes(5)

\* C10 as amended: a fixed stop is ON TIME exactly when it is not late and
\* its slack is not under 5 minutes: with a slack of exactly 5 minutes it is
\* ON TIME, with less and not late it is TIGHT; a stop whose slack is not a
\* number (its arrival time or its deadline is no valid time) is ON TIME.
C10_OnTimeFromFive ==
    Scheduled =>
        \A i \in Stops :
            (orderedTasks[i].fixedTime /\ statusIcons[i] # "") =>
                /\ statusIcons[i] = "ON TIME"
                      <=> (Slack(i).nan \/ Slack(i).v >= Minutes(5))
                /\ statusIcons[i] = "TIGHT"
                      <=> (~Slack(i).nan /\ Slack(i).v >= 0 /\ Slack(i).v < Minutes(5))

C10_Witness ==
    /\ Scheduled
    /\ policy = "forward"
    /\ Len(schedule) = 1
    /\ orderedTasks[1].fixedTime
    /\ Slack(1) = Num(Minutes(5))
    /\ statusIcons[1] = "ON TIME"

\* the data of a task apart from its id
TaskData(t) == <<t.fixedTime, t.mustArriveBy, t.lat, t.lng, t.durationMinutes>>

\* the entry of a stop apart from the id of its task
BackwardEntryData(e) ==
    <<e.departTime, e.arriveTime, e.durationMinutes, e.travelMinutes, e.isFixed,
      e.deadline>>

\* C11: under the backward policy a fixed stop with a deadline is to be
\* reached 5 minutes before mustArriveBy and left its own leg's travel
\* minutes before that; a flexible stop has neither a departTime nor an
\* arriveTime; and the entry of a stop depends on its own task and leg only:
\* stops with the same task data and leg have the same entry whatever the
\* other stops are, and a later call gives the same entries.
C11_BackwardFromDeadline ==
    (Scheduled /\ policy = "backward") =>
        /\ Len(schedule) = Len(orderedTasks)
        /\ \A i \in Stops :
              LET task == orderedTasks[i]
              IN  /\ schedule[i].taskId = task.id
                  /\ (task.fixedTime /\ Dated(task)) =>
                        /\ ~schedule[i].arriveTime.isNull
                        /\ ~schedule[i].departTime.isNull
                        /\ schedule[i].arriveTime.t
                              = Num(task.mustArriveBy.ms - Minutes(5))
                        /\ schedule[i].departTime.t
                              = Num(task.mustArriveBy.ms - Minutes(5) - TravelMs[i].v)
                  /\ ~task.fixedTime =>
                        /\ schedule[i].arriveTime.isNull
                        /\ schedule[i].departTime.isNull
        /\ \A i, j \in Stops :
              (/\ TaskData(orderedTasks[i]) = TaskData(orderedTasks[j])
               /\ route.legs[i] = route.legs[j])
              => BackwardEntryData(schedule[i]) = BackwardEntryData(schedule[j])
        /\ (previous.has /\ previous.route = route) => schedule = previous.schedule

\* a deadline of 08:45 behind a leg of 600 s: arrive at 08:40, leave at
\* 08:30; the flexible stop after it has no times
C11_Witness ==
    /\ Scheduled
    /\ policy = "backward"
    /\ Len(schedule) = 2
    /\ route.legs = <<600, 61>>
    /\ orderedTasks[1].fixedTime
    /\ orderedTasks[1].mustArriveBy = Iso(Minutes(NowMinutes + 45))
    /\ schedule[1].arriveTime = DateAt(Num(Minutes(NowMinutes + 40)))
    /\ schedule[1].departTime = DateAt(Num(Minutes(NowMinutes + 30)))
    /\ ~orderedTasks[2].fixedTime
    /\ schedule[2].arriveTime.isNull /\ schedule[2].departTime.isNull

\* handleRouteCalculated has run to its end or has thrown
Handled == unit = "timeline" /\ pc \in {"scheduled", "threw"}

\* C12: with fewer legs than ordered tasks either timeline builder throws
\* and returns no schedule: no partial schedule is stored, the schedule and
\* the statuses of the call before stay as they were; a schedule that is
\* stored has one entry for each task, built from the leg of the task's own
\* index.
C12_LegMismatchFails ==
    Handled =>
        /\ Len(route.legs) < Len(orderedTasks) =>
              /\ pc = "threw"
              /\ createTimeAwareSchedule(orderedTasks, route, now).threw
              /\ createTimeAwareSchedule(orderedTasks, route, now).schedule = <<>>
              /\ createTimeAwareScheduleBackward(orderedTasks, route).threw
              /\ schedule = previous.schedule
              /\ statusIcons = previous.statusIcons
        /\ pc = "scheduled" =>
              /\ Len(route.legs) >= Len(orderedTasks)
              /\ Len(schedule) = Len(orderedTasks)
              /\ \A i \in Stops :
                    /\ schedule[i].taskId = orderedTasks[i].id
                    /\ schedule[i].travelMinutes * 60 >= route.legs[i]
                    /\ (schedule[i].travelMinutes - 1) * 60 < route.legs[i]

\* the second call for two tasks comes with one leg: it throws, and the
\* schedule of the first call is still the stored one
C12_Witness ==
    /\ unit = "timeline"
    /\ pc = "threw"
    /\ policy = "forward"
    /\ previous.has
    /\ Len(orderedTasks) = 2
    /\ Len(route.legs) = 1
    /\ Len(previous.schedule) = 2
    /\ schedule = previous.schedule

\* the task has no durationMinutes
MissingDuration(t) == t.durationMinutes.nan

\* C13: under forward accumulation a stop whose task has no durationMinutes
\* is left 30 minutes after it is reached, and every stop from it on has
\* valid times.
C13_MissingDurationIsThirty ==
    (Scheduled /\ policy = "forward") =>
        \A i \in Stops :
            MissingDuration(orderedTasks[i]) =>
                /\ schedule[i].endTime = JsAdd(schedule[i].startTime, Num(Minutes(30)))
                /\ \A j \in i..Len(schedule) :
                      ~schedule[j].startTime.nan /\ ~schedule[j].endTime.nan

\* the task has a negative durationMinutes
NegativeDuration(t) == ~t.durationMinutes.nan /\ t.durationMinutes.v < 0

\* C14: a task with a negative durationMinutes makes the timeline builder
\* throw, and no entry of a stored schedule is left before it is reached.
C14_NegativeDurationRejected ==
    Handled =>
        /\ (\E i \in 1..Len(orderedTasks) : NegativeDuration(orderedTasks[i]))
              => pc = "threw"
        /\ (pc = "scheduled" /\ policy = "forward") =>
              \A i \in Stops : ~JsLess(schedule[i].endTime, schedule[i].startTime)

\* the task has the fixedTime flag and a mustArriveBy to go with it
UsableDeadline(t) == t.fixedTime /\ Dated(t)

\* C15: a task that is flagged fixedTime but has no mustArriveBy, and a
\* task that has a mustArriveBy but no flag, are treated as flexible and
\* crash nothing: the sequencer puts them after every task with a usable
\* deadline, and neither timeline builder throws on them or gives them a
\* deadline status.
C15_MalformedIsFlexible ==
    /\ Sequenced =>
          \A i, j \in 1..Len(finalOrder) :
              (UsableDeadline(finalOrder[i]) /\ ~UsableDeadline(finalOrder[j])) => i < j
    /\ (Handled /\ Len(route.legs) >= Len(orderedTasks)) =>
          /\ pc = "scheduled"
          /\ \A i \in Stops : ~UsableDeadline(orderedTasks[i]) => statusIcons[i] = ""

\* the part of C15 about a task with a mustArriveBy and no fixedTime flag
C15_UnflaggedDeadline ==
    /\ Sequenced =>
          \A i, j \in 1..Len(finalOrder) :
              (finalOrder[i].fixedTime /\ ~finalOrder[j].fixedTime) => i < j
    /\ Scheduled =>
          \A i \in Stops : ~orderedTasks[i].fixedTime => statusIcons[i] = ""

C16_WitnessLater ==
    /\ Scheduled
    /\ policy = "forward"
    /\ previous.has
    /\ previous.now # now
    /\ previous.route = route
    /\ schedule # previous.schedule

C17_WitnessSchedule ==
    /\ Scheduled
    /\ policy = "forward"
    /\ previous.has
    /\ Len(previous.schedule) = 2
    /\ previous.schedule
          = createTimeAwareSchedule(previous.orderedTasks, previous.route,
                                    previous.now).schedule
    /\ schedule # previous.schedule

\* C19: the route is requested from the user's location through the first
\* n - 1 tasks of the sequencer's order as waypoints to the last one, with
\* waypoint optimisation off; the route handed to the timeline builder then
\* has one leg for each ordered task, and leg i ends at task i and starts at
\* the task before it, the first at the user's location.
C19_LegsMatchTasks ==
    Sequenced =>
        LET req == routeRequests[Len(routeRequests)]
            n == Len(finalOrder)
        IN  /\ Len(routeRequests) = 1
            /\ req.origin = userLocation
            /\ req.waypoints = [i \in 1..(n - 1) |-> PointOf(finalOrder[i])]
            /\ req.destination = PointOf(finalOrder[n])
            /\ ~req.optimizeWaypoints
            /\ pc = "routed" =>
                  /\ orderedTasks = finalOrder
                  /\ Len(route.legs) = Len(orderedTasks)
                  /\ Len(directions.legs) = Len(orderedTasks)
                  /\ \A i \in 1..n :
                        /\ directions.legs[i].end_location = PointOf(orderedTasks[i])
                        /\ directions.legs[i].start_location
                              = IF i = 1 THEN userLocation
                                ELSE PointOf(orderedTasks[i - 1])
                        /\ route.legs[i] = directions.legs[i].duration

\* three tasks at three places, one of them fixed: three legs, the first
\* from the user to the fixed task
C19_Witness ==
    /\ Sequenced
    /\ pc = "routed"
    /\ Len(orderedTasks) = 3
    /\ orderedTasks[1].fixedTime
    /\ <<orderedTasks[1].lat, orderedTasks[2].lat, orderedTasks[3].lat>> = <<2, 3, 0>>
    /\ userLocation.lat = 1
    /\ route.legs = <<600, 600, 1800>>

-----------------------------------------------------------------------------
(* Properties of the resolver *)

Resolved == unit = "resolver" /\ pc = "resolved"

\* the task came with a latitude and a longitude
HadCoordinates(t) ==
    IsNumber(t.lat) /\ IsNumber(t.lng) /\ ~t.lat.nan /\ ~t.lng.nan

\* the Places lookup or the Geocoding lookup finds the task's location
LookupSucceeds(i) == lookups[i].places = "OK" \/ lookups[i].geocoding = "OK"

Ids(seq) == [i \in 1..Len(seq) |-> seq[i].id]

\* the ids of the tasks among the first n that satisfy Keep, in input order
RECURSIVE KeptIds(_, _)
KeptIds(Keep(_), n) ==
    IF n = 0 THEN <<>>
    ELSE IF Keep(n) THEN Append(KeptIds(Keep, n - 1), tasks[n].id)
    ELSE KeptIds(Keep, n - 1)

-----------------------------------------------------------------------------
(* Properties of the optimizer *)

\* the promise of optimizeRouteWithFeatherless has settled
Settled == unit = "optimizer" /\ pc = "settled"

\* the request failed, or its reply holds no task order
ApiFailed == apiReply.kind \in {"rejected", "noChoices", "notJson"}

\* C20: when the featherless.ai call fails a fallback orders the tasks by
\* their fixed and flexible constraints: the optimizer settles with a task
\* order, the fixed tasks by deadline before the flexible ones by distance,
\* and not with an error.
C20_FallbackOrder ==
    (Settled /\ ApiFailed) =>
        /\ ~optimized.threw
        /\ optimized.tasks \in calculateOptimalRoute(tasks, userLocation)

\* with a reply that parses the optimizer resolves to the reply's array
C20_ReplyReturned ==
    (Settled /\ ~ApiFailed) =>
        /\ ~optimized.threw
        /\ optimized.tasks = apiReply.tasks

-----------------------------------------------------------------------------
(* Properties of the session *)

Session == unit = "session"

\* the step posts the schedule message: handleRouteCalculated has run the
\* timeline builder
TimelineBuilt ==
    app'.messages = Append(app.messages, "Here's your optimized schedule")

\* the step takes the answer of the route request number i
Answers(i) == app'.pending = Without(app.pending, i)

\* C21: the pipeline runs in order. Resolution starts from a finished
\* extraction and works on its tasks; the tasks reach the sequencer when
\* resolution has returned them, and every new route request carries an
\* order the sequencer gives for those tasks; the timeline builder runs only
\* in the callback of a route request answered "OK", on the ordered tasks of
\* that request and the legs of its route; a request answered with another
\* status stores no schedule and posts no message.
C21_PipelineOrder ==
    [][Session =>
        /\ (app'.send = "resolving" /\ app.send # "resolving") =>
              /\ app.send = "extracting"
              /\ app'.extractedTasks \in AppTaskLists
        /\ (tasks' # tasks /\ tasks' # <<>>) =>
              /\ app.send = "resolving"
              /\ tasks' \in ResolutionOutcomes(app.extractedTasks)
        /\ Len(app'.pending) > Len(app.pending) =>
              /\ tasks' # <<>>
              /\ \E order \in calculateOptimalRoute(tasks', userLocation) :
                    app'.pending = app.pending \o drawFinalRoute(order, userLocation)
        /\ (TimelineBuilt \/ schedule' \notin {schedule, <<>>}) =>
              \E i \in 1..Len(app.pending) :
                 /\ Answers(i)
                 /\ app'.lastStatus = "OK"
                 /\ app'.rendered \in DirectionsResults(app.pending[i])
                 /\ schedule' =
                      createTimeAwareSchedule(
                          app.pending[i].orderedTasks,
                          [legs |-> [k \in 1..Len(app'.rendered.legs) |->
                                        app'.rendered.legs[k].duration]],
                          now).schedule
        /\ (Len(app'.pending) < Len(app.pending) /\ app'.lastStatus # "OK") =>
              /\ schedule' = schedule
              /\ app'.messages = app.messages
    ]_vars

\* a route lookup has returned "OK" and its two tasks are scheduled
C21_Witness ==
    /\ Session
    /\ app.lastStatus = "OK"
    /\ Len(schedule) = 2
    /\ app.messages[Len(app.messages)] = "Here's your optimized schedule"

\* a route lookup has failed and nothing is scheduled
C21_WitnessFailed ==
    /\ Session
    /\ app.lastStatus = "ZERO_RESULTS"
    /\ schedule = <<>>
    /\ Len(tasks) = 2

-----------------------------------------------------------------------------
(* Properties of the place lookup *)

\* the lookups made for the task with this id, in the order they were made
CallsFor(id) ==
    LET mine == SelectSeq(lookupLog, LAMBDA e : e.id = id)
    IN  [c \in 1..Len(mine) |-> mine[c].lookup]

\* the tasks resolveLocations returned for this id
ResolvedFor(id) == SelectSeq(resolvedTasks, LAMBDA t : t.id = id)

\* the task is looked up: the Geocoder is there and the task has no
\* coordinates of its own
LookedUp(i) == geocoderLoaded /\ ~ValidCoordinates(tasks[i])

\* C22: findNearbyPlace asks Places first and Geocoding only when Places
\* came back with nothing; it returns the Places result whenever there is
\* one, else the Geocoding result, and null only when both have none.
C22_PlacesThenGeocoding ==
    Resolved =>
        \A i \in 1..Len(tasks) :
            LookedUp(i) =>
                LET primary == PlacesResult(tasks[i].location, lookups[i])
                    secondary == GeocodingResult(tasks[i].location, lookups[i])
                    found == ResolvedFor(tasks[i].id)
                IN  /\ CallsFor(tasks[i].id)[1] = "places"
                    /\ CallsFor(tasks[i].id) =
                          IF primary.found THEN <<"places">>
                          ELSE <<"places", "geocoding">>
                    /\ primary.found =>
                          /\ Len(found) = 1
                          /\ found[1].lat = primary.lat
                          /\ found[1].location = primary.name
                    /\ (~primary.found /\ secondary.found) =>
                          /\ Len(found) = 1
                          /\ found[1].lat = secondary.lat
                    /\ found = <<>> <=> (~primary.found /\ ~secondary.found)

\* both lookups have a result for a task, and the task comes back with the
\* place of the Places lookup after that one lookup
C22_Witness ==
    /\ Resolved
    /\ \E i \in 1..Len(tasks) :
          /\ LookedUp(i)
          /\ lookups[i] = [places |-> "OK", geocoding |-> "OK"]
          /\ CallsFor(tasks[i].id) = <<"places">>
          /\ ResolvedFor(tasks[i].id)[1].lat = Num(31)

\* Places has nothing for a task and Geocoding is asked
C22_WitnessFallback ==
    /\ Resolved
    /\ \E i \in 1..Len(tasks) :
          /\ LookedUp(i)
          /\ lookups[i] = [places |-> "ZERO_RESULTS", geocoding |-> "OK"]
          /\ CallsFor(tasks[i].id) = <<"places", "geocoding">>
          /\ ResolvedFor(tasks[i].id)[1].lat = Num(32)

\* the session under fair scheduling: what was started settles (the
\* libraries load, geolocation answers, the awaited calls of handleSend
\* return or throw, a route request is answered); the user need not act
LiveSpec ==
    /\ Init
    /\ [][Next]_vars
    /\ WF_vars(PlacesDetected)
    /\ WF_vars(MapsReady)
    /\ WF_vars(GeolocationSettled)
    /\ WF_vars(ExtractionSettled)
    /\ WF_vars(ResolutionSettled)
    /\ WF_vars(RouteCallback)

\* C23: whenever handleSend has set isLoading, isLoading becomes false
\* again, whatever way the pipeline ends.
C23_LoadingEnds == (Session /\ app.isLoading) ~> ~app.isLoading

\* a route request was answered without a route, and the session is still
\* loading with nothing left to wait for
C23_StuckLoading ==
    /\ Session
    /\ app.isLoading
    /\ app.send = "idle"
    /\ app.pending = <<>>
    /\ app.lastStatus = "ZERO_RESULTS"
    /\ app.librariesLoaded

\* the pipelines in flight: a handleSend between its awaits, and the route
\* requests without an answer
InFlight(a) == (IF a.send = "idle" THEN 0 ELSE 1) + Len(a.pending)

\* C24: at most one pipeline is in flight.  While isLoading is true no step
\* starts another handleSend, and at no time is there more than one
\* handleSend or route request under way; whatever is under way keeps
\* isLoading true.
C24_OnePipeline ==
    [][Session =>
        /\ app.isLoading => app'.sends = app.sends
        /\ InFlight(app') <= 1
        /\ InFlight(app') > 0 => app'.isLoading
    ]_vars

\* the route request of a second send is outstanding
C24_Witness ==
    /\ Session
    /\ app.isLoading
    /\ app.sends = 2
    /\ Len(app.pending) = 1
    /\ Len(schedule) > 0

\* C25: after Clear Schedule the stored schedule stays empty until a later
\* send succeeds, and no schedule message follows the clearing: while the
\* task list is empty, as Clear Schedule leaves it and only a successful
\* send changes it, the schedule is empty and the latest message is not a
\* schedule.
C25_ClearedStaysEmpty ==
    (Session /\ tasks = <<>>) =>
        /\ schedule = <<>>
        /\ app.messages # <<>> =>
              app.messages[Len(app.messages)] # "Here's your optimized schedule"

\* C26: whenever the task list is empty, at the start and after Clear
\* Schedule, the map shows no task marker and no route.
C26_EmptyMapWithoutTasks ==
    (Session /\ tasks = <<>>) =>
        /\ app.markers = <<>>
        /\ app.rendered = NoDirections

\* the messages of the failure exits of handleSend
FailureMessages ==
    {"Error", "No tasks found in your message.", "Could not find locations.",
     "Please wait for maps to load..."}

\* the step is a handleSend leaving by a failure exit: it posts one of the
\* failure messages (with blank input or without a location handleSend
\* returns at once and changes nothing at all)
FailureExit ==
    /\ Len(app'.messages) > Len(app.messages)
    /\ app'.messages[Len(app'.messages)] \in FailureMessages

\* C27: every failure exit of handleSend leaves tasks, allTasks and the
\* schedule as they were, starts no route lookup, and leaves isLoading
\* false.
C27_FailureLeavesState ==
    [][(Session /\ FailureExit) =>
        /\ tasks' = tasks
        /\ app'.allTasks = app.allTasks
        /\ schedule' = schedule
        /\ app'.pending = app.pending
        /\ app'.markers = app.markers
        /\ ~app'.isLoading
    ]_vars

\* a second send found no location: the tasks and the schedule of the first
\* send are still there
C27_Witness ==
    /\ Session
    /\ ~app.isLoading
    /\ Len(tasks) = 2
    /\ Len(schedule) = 2
    /\ app.messages[Len(app.messages)] = "Could not find locations."
    /\ app.allTasks = tasks

-----------------------------------------------------------------------------
(* Properties of the timelines' times *)

\* C28: under the backward policy every fixed stop with a deadline is shown
\* ON TIME, and no stop is shown LATE or TIGHT.
C28_BackwardAlwaysOnTime ==
    (Scheduled /\ policy = "backward") =>
        /\ Len(statusIcons) = Len(orderedTasks)
        /\ \A i \in Stops :
              /\ statusIcons[i] \notin {"LATE", "TIGHT"}
              /\ (orderedTasks[i].fixedTime /\ Truthy(orderedTasks[i].mustArriveBy))
                    => statusIcons[i] = "ON TIME"

\* a deadline one minute after the reference time, behind a leg of ten
\* minutes, is shown ON TIME all the same
C28_Witness ==
    /\ Scheduled
    /\ policy = "backward"
    /\ \E i \in Stops :
          /\ orderedTasks[i].fixedTime
          /\ orderedTasks[i].mustArriveBy = Iso(Minutes(NowMinutes + 1))
          /\ route.legs[i] = 600
          /\ statusIcons[i] = "ON TIME"

\* a is a time at or after b
AtLeast(a, b) == ~a.nan /\ ~b.nan /\ a.v >= b.v

\* the durations of the run's tasks and legs are numbers, none negative
NonNegativeDurations ==
    /\ \A i \in 1..Len(orderedTasks) :
          AtLeast(orderedTasks[i].durationMinutes, Num(0))
    /\ \A i \in 1..Len(route.legs) : route.legs[i] >= 0

\* C29: under the forward policy, with no negative leg or task duration,
\* the first stop starts at or after the reference time, every stop ends at
\* or after its start, and every stop starts at or after the end of the
\* stop before it.
C29_ForwardMonotone ==
    (Scheduled /\ policy = "forward" /\ NonNegativeDurations) =>
        \A i \in Stops :
            /\ AtLeast(schedule[i].startTime,
                       IF i = 1 THEN Num(now) ELSE schedule[i - 1].endTime)
            /\ AtLeast(schedule[i].endTime, schedule[i].startTime)

\* a stop of no duration ends as it starts, and the stop after it starts
\* two minutes later, behind a leg of 61 s
C29_Witness ==
    /\ Scheduled
    /\ policy = "forward"
    /\ NonNegativeDurations
    /\ Len(schedule) = 2
    /\ orderedTasks[1].durationMinutes = Num(0)
    /\ route.legs = <<600, 61>>
    /\ schedule[1].startTime = Num(now + Minutes(10))
    /\ schedule[1].endTime = schedule[1].startTime
    /\ schedule[2].startTime = Num(now + Minutes(12))

\* createSchedule has returned
Planned == unit = "planner" /\ pc = "planned"

\* C30: the entries of createSchedule neither overlap nor start before the
\* current time: the first starts at or after currentTime and every other
\* one at or after the end of the entry before it.
C30_NoOverlap ==
    Planned =>
        \A i \in Stops :
            AtLeast(schedule[i].startTime,
                    IF i = 1 THEN Num(now) ELSE schedule[i - 1].endTime)

\* without a deadline that pulls an entry back the entries follow one
\* another from the current time on
C30_SequentialUnlessPulledBack ==
    (Planned /\ \A i \in 1..Len(tasks) :
                   tasks[i].fixedTime =>
                       tasks[i].mustArriveBy = Iso(Minutes(NowMinutes + 90)))
        => C30_NoOverlap

====
